---- MODULE Spec2Model ----
(***************************************************************************)
(* State-machine model of the question / PDF backend (FastAPI service).     *)
(*                                                                          *)
(*   - the question store: one JSON document holding a list of question     *)
(*     records, read and rewritten whole by load_questions/save_questions   *)
(*     (src/app/utils/file_utils.py) and the five handlers of               *)
(*     src/app/api/question_routes.py;                                      *)
(*   - the PDF directory: files keyed by name, handled by                   *)
(*     src/app/api/pdf_routes.py with validate_pdf_filename;                *)
(*   - POST /process (src/app/api/process_routes.py) and the external       *)
(*     service it calls.                                                    *)
(*                                                                          *)
(* Strings that the code inspects character by character (file names) are   *)
(* tuples of one-character strings. uuid.uuid4() is modelled as a choice    *)
(* among the identifiers it has not returned before.                        *)
(***************************************************************************)
EXTENDS Integers, Sequences, FiniteSets, TLC

\* ------------------------------------------------------------------ bounds

\* Number of identifiers uuid4 can hand out in one run.
MaxIds == 2
\* Longest question_ids list of a /process request.
MaxIdList == 2
\* Longest result list the external service answers with.
MaxResults == 2
\* Number of distinct file contents.
MaxBytes == 2
\* Number of requests the thread pool runs at the same time.
MaxThreads == 2
\* Number of requests to async handlers in progress on the event loop.
MaxTasks == 2

Ids == 1..MaxIds
\* Identifiers a client may send: every uuid, and one (0) uuid4 never produces.
RequestIds == 0..MaxIds

\* QuestionCreate / QuestionUpdate bodies. "" is the text pydantic rejects.
Texts == {"", "t1", "t2"}
NoneValue == "None"
Procedures == {NoneValue, "p1"}

FileContents == 1..MaxBytes

VARIABLES
  os_name,        \* "posix" or "nt": which os.path the interpreter runs with
  questions_db,   \* data/questions.json: the stored list of question records
  issued,         \* identifiers uuid4 has returned so far
  db_writes,      \* rewrites of questions.json made by the last request
  pdf_dir,        \* data/pdfs: file name -> content, 0 where no file exists
  fs_access,      \* file-system calls (exists/open/remove/listdir) of the last request
  ext_log,        \* outbound requests the last request sent to the external service
  pre,            \* questions_db and pdf_dir as they were before the last request
  req,            \* the last request handled
  resp,           \* its response
  questions_lock, \* threading.Lock(): 0 when free, else the thread holding it
  threads,        \* the pool's threads: where each is in its handler, its locals
  tasks,          \* the event loop's coroutines: where each async handler is, its locals
  acked           \* identifiers whose create / whose delete has returned success

vars == <<os_name, questions_db, issued, db_writes, pdf_dir, fs_access,
          ext_log, pre, req, resp, questions_lock, threads, tasks, acked>>

\* While requests are handled one at a time the pool's threads and the event
\* loop's other coroutines stay idle.
PoolIdle == UNCHANGED <<questions_lock, threads, tasks, acked>>

\* ------------------------------------------------- requests and responses

\* A request: the handler's name and its arguments (unused ones left blank).
Request(op) ==
  [op |-> op, id |-> 0, soru |-> "", yordam |-> NoneValue,
   name |-> <<>>, content |-> 0, ids |-> <<>>]

\* A response: HTTP status and the body's fields (unused ones left blank).
Response(status) ==
  [status |-> status, id |-> 0, soru |-> "", yordam |-> NoneValue,
   items |-> <<>>, count |-> 0, name |-> <<>>, files |-> {}, content |-> 0]

Snapshot == [questions_db |-> questions_db, pdf_dir |-> pdf_dir]

\* ------------------------------------------------------- question store

\* The questions document: a JSON list ("list"), or no file ("missing"),
\* text that is not JSON, the empty file included ("garbage"), JSON that is
\* not a list ("notlist"), or bytes that are not UTF-8 text ("binary").
ListDocument(data) == [kind |-> "list", data |-> data]
DamagedKinds == {"missing", "garbage", "notlist", "binary"}

\* load_questions raising HTTPException(500): the read raised something
\* other than FileNotFoundError and json.JSONDecodeError. Reading bytes that
\* are not UTF-8 raises UnicodeDecodeError.
load_raises(doc) == doc.kind = "binary"

\* load_questions when it returns: the decoded list; a missing, JSON-invalid
\* or non-list document reads as the empty list.
load_questions(doc) == IF doc.kind = "list" THEN doc.data ELSE <<>>

\* save_questions: the whole document is replaced by the list.
save_questions(data) == ListDocument(data)

QuestionIds(questions) == {questions[i].id : i \in DOMAIN questions}

\* pydantic: Field(..., min_length=1) on soru.
ValidText(soru) == soru # ""

\* validate_question_data: the Question model of a stored dict, or 500.
validate_question_data(q) ==
  IF ValidText(q.soru)
  THEN [Response(200) EXCEPT !.id = q.id, !.soru = q.soru, !.yordam = q.yordam]
  ELSE Response(500)

\* A search that reports the head of the list whenever the id is present.
FirstIndex_head(questions, id) ==
  IF \E i \in DOMAIN questions : questions[i].id = id THEN 1 ELSE 0

\* Index of the first record whose id is `id`, 0 when there is none.
FirstIndex(questions, id) ==
  IF \E i \in DOMAIN questions : questions[i].id = id
  THEN CHOOSE i \in DOMAIN questions :
         /\ questions[i].id = id
         /\ \A j \in DOMAIN questions : questions[j].id = id => i <= j
  ELSE 0

\* [q for q in questions if q.get("id") != id]
RECURSIVE WithoutId(_, _)
WithoutId(questions, id) ==
  IF questions = <<>> THEN <<>>
  ELSE IF Head(questions).id = id THEN WithoutId(Tail(questions), id)
  ELSE <<Head(questions)>> \o WithoutId(Tail(questions), id)

\* A generator that may repeat an identifier.
uuid4_repeating(used) == Ids

\* uuid.uuid4(): any identifier not handed out before.
uuid4(used) == Ids \ used

\* The new_question / updated dict built by add_question and update_question.
QuestionDict(id, soru, yordam) == [id |-> id, soru |-> soru, yordam |-> yordam]

\* get_question's answer on the loaded list.
get_question_response(questions, id) ==
  IF FirstIndex(questions, id) = 0 THEN Response(404)
  ELSE validate_question_data(questions[FirstIndex(questions, id)])

\* list_questions' answer: every record validated, 500 if one is invalid.
list_questions_response(questions) ==
  IF \E i \in DOMAIN questions : ~ValidText(questions[i].soru) THEN Response(500)
  ELSE [Response(200) EXCEPT !.items = questions, !.count = Len(questions)]

\* What a question handler leaves alone.
PdfSideUnchanged == ext_log' = <<>> /\ UNCHANGED <<os_name, pdf_dir>> /\ PoolIdle

\* GET /questions
list_questions ==
  /\ req' = Request("list_questions")
  /\ resp' = IF load_raises(questions_db) THEN Response(500)
              ELSE list_questions_response(load_questions(questions_db))
  /\ pre' = Snapshot
  /\ fs_access' = 1
  /\ db_writes' = 0 /\ UNCHANGED <<questions_db, issued>>
  /\ PdfSideUnchanged

\* POST /question, with the request body drawn from texts x procedures
AddQuestion(texts, procedures) ==
  \E soru \in texts, yordam \in procedures :
    /\ req' = [Request("add_question") EXCEPT !.soru = soru, !.yordam = yordam]
    /\ pre' = Snapshot
    /\ PdfSideUnchanged
    /\ IF ~ValidText(soru)
       THEN \* QuestionCreate fails validation: the handler does not run
            /\ resp' = Response(422)
            /\ fs_access' = 0
            /\ db_writes' = 0 /\ UNCHANGED <<questions_db, issued>>
       ELSE IF load_raises(questions_db)
       THEN /\ resp' = Response(500)
            /\ fs_access' = 1
            /\ db_writes' = 0 /\ UNCHANGED <<questions_db, issued>>
       ELSE \E id \in uuid4(issued) :
              LET questions == load_questions(questions_db)
                  new_question == QuestionDict(id, soru, yordam)
              IN /\ issued' = issued \cup {id}
                 /\ questions_db' = save_questions(Append(questions, new_question))
                 /\ db_writes' = 1
                 /\ fs_access' = 2
                 /\ resp' = validate_question_data(new_question)

add_question == AddQuestion(Texts, Procedures)

\* GET /question/{id}
get_question ==
  \E id \in RequestIds :
    /\ req' = [Request("get_question") EXCEPT !.id = id]
    /\ resp' = IF load_raises(questions_db) THEN Response(500)
                ELSE get_question_response(load_questions(questions_db), id)
    /\ pre' = Snapshot
    /\ fs_access' = 1
    /\ db_writes' = 0 /\ UNCHANGED <<questions_db, issued>>
    /\ PdfSideUnchanged

\* An update that appends the new dict instead of replacing the old one.
replace_at_appending(questions, idx, updated) == Append(questions, updated)

\* An update that keeps the list up to the updated record only.
replace_at_truncating(questions, idx, updated) ==
  Append(SubSeq(questions, 1, idx - 1), updated)

\* questions[idx] = updated
replace_at(questions, idx, updated) == [questions EXCEPT ![idx] = updated]

\* PUT /question/{id}
update_question ==
  \E id \in RequestIds, soru \in Texts, yordam \in Procedures :
    /\ req' = [Request("update_question") EXCEPT !.id = id, !.soru = soru,
                                                  !.yordam = yordam]
    /\ pre' = Snapshot
    /\ PdfSideUnchanged
    /\ UNCHANGED issued
    /\ IF ~ValidText(soru)
       THEN /\ resp' = Response(422)
            /\ fs_access' = 0
            /\ db_writes' = 0 /\ UNCHANGED questions_db
       ELSE IF load_raises(questions_db)
       THEN /\ resp' = Response(500)
            /\ fs_access' = 1
            /\ db_writes' = 0 /\ UNCHANGED questions_db
       ELSE LET questions == load_questions(questions_db)
                idx == FirstIndex(questions, id)
                updated == QuestionDict(id, soru, yordam)
            IN IF idx = 0
               THEN /\ resp' = Response(404)
                    /\ fs_access' = 1
                    /\ db_writes' = 0 /\ UNCHANGED questions_db
               ELSE /\ questions_db' = save_questions(replace_at(questions, idx, updated))
                    /\ db_writes' = 1
                    /\ fs_access' = 2
                    /\ resp' = validate_question_data(updated)

\* A not-found test that never fires.
nothing_deleted_never(questions, updated_questions) == FALSE

\* len(questions) == len(updated_questions)
nothing_deleted(questions, updated_questions) ==
  Len(questions) = Len(updated_questions)

\* DELETE /question/{id}
delete_question ==
  \E id \in RequestIds :
    LET questions == load_questions(questions_db)
        updated_questions == WithoutId(questions, id)
    IN /\ req' = [Request("delete_question") EXCEPT !.id = id]
       /\ pre' = Snapshot
       /\ PdfSideUnchanged
       /\ UNCHANGED issued
       /\ IF load_raises(questions_db)
          THEN /\ resp' = Response(500)
               /\ fs_access' = 1
               /\ db_writes' = 0 /\ UNCHANGED questions_db
          ELSE IF nothing_deleted(questions, updated_questions)
          THEN /\ resp' = Response(404)
               /\ fs_access' = 1
               /\ db_writes' = 0 /\ UNCHANGED questions_db
          ELSE /\ questions_db' = save_questions(updated_questions)
               /\ db_writes' = 1
               /\ fs_access' = 2
               /\ resp' = [Response(200) EXCEPT !.id = id]

\* ------------------------------------------------------------ file names

PdfExt == <<".", "p", "d", "f">>
DotDot == <<".", ".">>

\* str.lower() on the characters file names are built from.
Lower(c) ==
  CASE c = "P" -> "p" [] c = "D" -> "d" [] c = "F" -> "f" [] c = "A" -> "a"
    [] OTHER -> c

LowerName(name) == [i \in DOMAIN name |-> Lower(name[i])]

\* str.endswith
EndsWith(name, suffix) ==
  /\ Len(name) >= Len(suffix)
  /\ SubSeq(name, Len(name) - Len(suffix) + 1, Len(name)) = suffix

\* `sub in name`
Contains(name, sub) ==
  \E i \in 1..(Len(name) - Len(sub) + 1) : SubSeq(name, i, i + Len(sub) - 1) = sub

\* The separators os.path splits on: posixpath "/" only, ntpath "/" and "\".
Separators(os) == IF os = "nt" THEN {"/", "\\"} ELSE {"/"}

\* os.path.basename: what follows the last separator.
basename(os, name) ==
  LET seps == {i \in DOMAIN name : name[i] \in Separators(os)}
  IN IF seps = {} THEN name
     ELSE LET last == CHOOSE i \in seps : \A j \in seps : j <= i
          IN SubSeq(name, last + 1, Len(name))

\* validate_pdf_filename: [status |-> 400] or [status |-> 200, name |-> cleaned]
validate_pdf_filename(os, filename) ==
  IF filename = <<>> THEN [status |-> 400, name |-> <<>>]
  ELSE IF ~EndsWith(LowerName(filename), PdfExt) THEN [status |-> 400, name |-> <<>>]
  ELSE LET original_filename == basename(os, filename)
       IN IF Contains(original_filename, DotDot) \/ original_filename = <<>>
          THEN [status |-> 400, name |-> <<>>]
          ELSE [status |-> 200, name |-> original_filename]

\* A traversal test that forgets the backslash.
HasTraversal_no_backslash(filename) ==
  \/ Contains(filename, DotDot)
  \/ Contains(filename, <<"/">>)

\* get_pdf / delete_pdf: ".." in filename or "/" in filename or "\\" in filename
HasTraversal(filename) ==
  \/ Contains(filename, DotDot)
  \/ Contains(filename, <<"/">>)
  \/ Contains(filename, <<"\\">>)

\* File names clients send.
Stem == <<"a">>
FileNames ==
  { <<>>,
    Stem \o PdfExt,                                   \* a.pdf
    Stem \o <<".", "P", "D", "F">>,                   \* a.PDF
    Stem \o <<".", "t", "x", "t">>,                   \* a.txt
    <<"d", "/">> \o Stem \o PdfExt,                   \* d/a.pdf
    <<".", ".", "/">> \o Stem \o PdfExt,              \* ../a.pdf
    <<"d", "\\">> \o Stem \o PdfExt,                  \* d\a.pdf
    <<".", ".", "\\">> \o Stem \o PdfExt,             \* ..\a.pdf
    Stem \o <<".">> \o PdfExt }                       \* a..pdf

\* A path parameter is never empty.
PathNames == FileNames \ {<<>>}

\* --------------------------------------------------- external service

\* Result items the external service may return; ProcessResult accepts only
\* the statuses "answer_found" and "answer_notfound".
ResultStatuses == {"answer_found", "answer_notfound"}
ResultItems ==
  { [question |-> "q1", answer |-> "a1", status |-> "answer_found"],
    [question |-> "q2", answer |-> "", status |-> "answer_notfound"],
    [question |-> "q1", answer |-> "a1", status |-> "found"] }
ResultLists == UNION {[1..n -> ResultItems] : n \in 0..MaxResults}

\* What the external service may do with one outbound request: no answer at
\* all (connection refused, timeout), or an HTTP answer with a status and a
\* body that either decodes to what the caller expects or does not.
ExternalAnswer(kind, status, wellformed, results) ==
  [kind |-> kind, status |-> status, wellformed |-> wellformed, results |-> results]
UpstreamStatuses == {200, 201, 404, 500}
ExternalAnswers ==
  {ExternalAnswer("network_error", 0, FALSE, <<>>)}
  \cup {ExternalAnswer("http", s, FALSE, <<>>) : s \in UpstreamStatuses}
  \cup {ExternalAnswer("http", 200, TRUE, r) : r \in ResultLists}

\* Answers to /preprocess-pdf: completed, unreachable, error status, bad body.
Completed == ExternalAnswer("http", 200, TRUE, <<>>)
PreprocessAnswers ==
  { Completed,
    ExternalAnswer("network_error", 0, FALSE, <<>>),
    ExternalAnswer("http", 500, FALSE, <<>>),
    ExternalAnswer("http", 200, FALSE, <<>>) }

\* One outbound request and the answer it got.
Exchange(endpoint, file, questions, answer) ==
  [endpoint |-> endpoint, file |-> file, questions |-> questions, answer |-> answer]

\* A client that takes every outcome of the forward for a success.
preprocess_pdf_async_trusting(answer) == TRUE

\* preprocess_pdf_async returns (no exception) iff raise_for_status passes
\* and the body parses as a PreProcessResponse.
preprocess_pdf_async(answer) ==
  /\ answer.kind = "http"
  /\ answer.status \in 200..299
  /\ answer.wellformed

\* ------------------------------------------------------------ PDF store

\* An existence test that never finds the file.
exists_never(dir, name) == FALSE

\* os.path.exists(os.path.join(PDF_DIR, name)) for a name without separators
exists(dir, name) == name \in DOMAIN dir

\* A write that leaves a file that is already there as it is.
write_file_exclusive(dir, name, content) ==
  [n \in DOMAIN dir \cup {name} |-> IF n \in DOMAIN dir THEN dir[n] ELSE content]

\* open(file_path, "wb").write(file_bytes)
write_file(dir, name, content) ==
  [n \in DOMAIN dir \cup {name} |-> IF n = name THEN content ELSE dir[n]]

\* os.remove(file_path)
remove(dir, name) == [n \in DOMAIN dir \ {name} |-> dir[n]]

\* get_pdf_files: the regular files of PDF_DIR whose lowered name ends in .pdf
get_pdf_files(dir) == {n \in DOMAIN dir : EndsWith(LowerName(n), PdfExt)}

\* What a PDF handler leaves alone.
QuestionSideUnchanged ==
  db_writes' = 0 /\ UNCHANGED <<os_name, questions_db, issued>> /\ PoolIdle

\* GET /pdfs
list_pdfs ==
  /\ req' = Request("list_pdfs")
  /\ resp' = [Response(200) EXCEPT !.files = get_pdf_files(pdf_dir),
                                   !.count = Cardinality(get_pdf_files(pdf_dir))]
  /\ pre' = Snapshot
  /\ fs_access' = 1
  /\ ext_log' = <<>>
  /\ UNCHANGED pdf_dir
  /\ QuestionSideUnchanged

\* POST /upload-pdf, with the file drawn from filenames x contents and the
\* external preprocessing answering with one of outcomes
UploadPdf(filenames, contents, outcomes) ==
  \E filename \in filenames, file_bytes \in contents :
    LET valid == validate_pdf_filename(os_name, filename)
        original_filename == valid.name
    IN /\ req' = [Request("upload_pdf") EXCEPT !.name = filename, !.content = file_bytes]
       /\ pre' = Snapshot
       /\ QuestionSideUnchanged
       /\ IF valid.status # 200
          THEN /\ resp' = Response(400)
               /\ fs_access' = 0
               /\ ext_log' = <<>>
               /\ UNCHANGED pdf_dir
          ELSE IF exists(pdf_dir, original_filename)
          THEN /\ resp' = Response(409)
               /\ fs_access' = 1
               /\ ext_log' = <<>>
               /\ UNCHANGED pdf_dir
          ELSE \E outcome \in outcomes :
                 /\ pdf_dir' = write_file(pdf_dir, original_filename, file_bytes)
                 /\ fs_access' = 2
                 /\ ext_log' = <<Exchange("preprocess-pdf", file_bytes, <<>>, outcome)>>
                 /\ resp' = IF preprocess_pdf_async(outcome)
                            THEN [Response(200) EXCEPT !.name = original_filename]
                            ELSE Response(500)

upload_pdf == UploadPdf(FileNames, FileContents, PreprocessAnswers)

\* get_pdf's answer to `filename` over the directory `dir`.
get_pdf_response(dir, filename) ==
  IF HasTraversal(filename) THEN Response(400)
  ELSE IF ~exists(dir, filename) THEN Response(404)
  ELSE [Response(200) EXCEPT !.content = dir[filename]]

\* delete_pdf's status for `filename` over the directory `dir`.
delete_pdf_status(dir, filename) ==
  IF HasTraversal(filename) THEN 400
  ELSE IF ~exists(dir, filename) THEN 404
  ELSE 200

\* GET /pdf/{filename}
get_pdf ==
  \E filename \in PathNames :
    /\ req' = [Request("get_pdf") EXCEPT !.name = filename]
    /\ pre' = Snapshot
    /\ QuestionSideUnchanged
    /\ ext_log' = <<>>
    /\ UNCHANGED pdf_dir
    /\ resp' = get_pdf_response(pdf_dir, filename)
    /\ fs_access' = IF HasTraversal(filename) THEN 0
                    ELSE IF ~exists(pdf_dir, filename) THEN 1 ELSE 2

\* DELETE /pdf/{filename}
delete_pdf ==
  \E filename \in PathNames :
    /\ req' = [Request("delete_pdf") EXCEPT !.name = filename]
    /\ pre' = Snapshot
    /\ QuestionSideUnchanged
    /\ ext_log' = <<>>
    /\ resp' = Response(delete_pdf_status(pdf_dir, filename))
    /\ IF HasTraversal(filename)
       THEN fs_access' = 0 /\ UNCHANGED pdf_dir
       ELSE IF ~exists(pdf_dir, filename)
       THEN fs_access' = 1 /\ UNCHANGED pdf_dir
       ELSE pdf_dir' = remove(pdf_dir, filename) /\ fs_access' = 2

\* ------------------------------------------------------------- /process

\* Lists of question identifiers a /process request may carry.
IdLists == UNION {[1..n -> RequestIds] : n \in 0..MaxIdList}

\* A client that decodes the body of any answer, whatever its status.
query_process_endpoint_lenient(answer) ==
  IF answer.kind = "network_error" THEN [raises |-> "RequestError", value |-> <<>>]
  ELSE IF answer.wellformed THEN [raises |-> "", value |-> answer.results]
  ELSE [raises |-> "JSONDecodeError", value |-> <<>>]

\* query_process_endpoint after the request was sent: the decoded body, or
\* the exception it raises (None is returned for a 2xx other than 200).
query_process_endpoint(answer) ==
  IF answer.kind = "network_error" THEN [raises |-> "RequestError", value |-> <<>>]
  ELSE IF answer.status = 200
  THEN IF answer.wellformed THEN [raises |-> "", value |-> answer.results]
       ELSE [raises |-> "JSONDecodeError", value |-> <<>>]
  ELSE IF answer.status \in 200..299 THEN [raises |-> "TypeError", value |-> <<>>]
  ELSE [raises |-> "HTTPStatusError", value |-> <<>>]

\* A results loop that skips the first item.
process_response_skipping(answer) ==
  LET response_data == query_process_endpoint(answer)
      results == response_data.value
  IN IF response_data.raises # "" \/ results = <<>> THEN Response(500)
     ELSE [Response(200) EXCEPT !.items = Tail(results), !.count = Len(results) - 1]

\* An except chain that hands the upstream status on as its own.
process_response_passthrough(answer) ==
  LET response_data == query_process_endpoint(answer)
      results == response_data.value
  IN IF response_data.raises = "RequestError" THEN Response(503)
     ELSE IF response_data.raises = "HTTPStatusError" THEN Response(answer.status)
     ELSE IF response_data.raises # "" THEN Response(500)
     ELSE IF \E i \in DOMAIN results : results[i].status \notin ResultStatuses
     THEN Response(500)
     ELSE [Response(200) EXCEPT !.items = results, !.count = Len(results)]

\* process_questions from the await on: the results loop and the except chain.
process_response(answer) ==
  LET response_data == query_process_endpoint(answer)
      results == response_data.value
  IN IF response_data.raises = "FileNotFoundError" THEN Response(404)
     ELSE IF response_data.raises = "RequestError" THEN Response(503)
     ELSE IF response_data.raises = "HTTPStatusError" THEN Response(502)
     ELSE IF response_data.raises # "" THEN Response(500)
     ELSE IF \E i \in DOMAIN results : results[i].status \notin ResultStatuses
     THEN Response(500)
     ELSE [Response(200) EXCEPT !.items = results, !.count = Len(results)]

\* questions_dict = {q["id"]: q for q in questions_data}: the ids it holds
questions_dict_keys(questions_data) == QuestionIds(questions_data)

\* questions_dict[id]: the question stored under `id` (the last one, as in a
\* dict comprehension); the loop only looks up identifiers it found present.
LookUp(questions_data, id) ==
  IF id \in questions_dict_keys(questions_data)
  THEN questions_data[CHOOSE i \in DOMAIN questions_data :
                       /\ questions_data[i].id = id
                       /\ \A j \in DOMAIN questions_data :
                            questions_data[j].id = id => j <= i]
  ELSE QuestionDict(id, "", NoneValue)

\* A validation loop that looks at the first requested identifier only.
first_unknown_head(questions_data, question_ids) ==
  IF question_ids # <<>> /\ question_ids[1] \notin questions_dict_keys(questions_data)
  THEN 1 ELSE 0

\* The for loop over request.question_ids: the position of the first
\* identifier that is not in questions_dict, 0 when all are.
first_unknown(questions_data, question_ids) ==
  LET unknown == {i \in DOMAIN question_ids :
                    question_ids[i] \notin questions_dict_keys(questions_data)}
  IN IF unknown = {} THEN 0 ELSE CHOOSE i \in unknown : \A j \in unknown : i <= j

\* questions_to_process: {"soru", "yordam"} of each requested question, in
\* the order of question_ids.
questions_to_process(questions_data, question_ids) ==
  [i \in DOMAIN question_ids |->
     [soru |-> LookUp(questions_data, question_ids[i]).soru,
      yordam |-> LookUp(questions_data, question_ids[i]).yordam]]

\* POST /process
process_questions ==
  \E pdf_name \in FileNames, question_ids \in IdLists :
    LET valid == validate_pdf_filename(os_name, pdf_name)
        pdf_filename == valid.name
        questions_data == load_questions(questions_db)
    IN /\ req' = [Request("process_questions") EXCEPT !.name = pdf_name,
                                                      !.ids = question_ids]
       /\ pre' = Snapshot
       /\ db_writes' = 0
       /\ UNCHANGED <<os_name, questions_db, issued, pdf_dir>>
       /\ PoolIdle
       /\ IF valid.status # 200
          THEN resp' = Response(400) /\ fs_access' = 0 /\ ext_log' = <<>>
          ELSE IF ~exists(pdf_dir, pdf_filename)
          THEN resp' = Response(404) /\ fs_access' = 1 /\ ext_log' = <<>>
          ELSE IF load_raises(questions_db)
          THEN resp' = Response(500) /\ fs_access' = 2 /\ ext_log' = <<>>
          ELSE IF first_unknown(questions_data, question_ids) # 0
          THEN resp' = Response(404) /\ fs_access' = 2 /\ ext_log' = <<>>
          ELSE \E answer \in ExternalAnswers :
                 /\ resp' = process_response(answer)
                 /\ fs_access' = 4
                 /\ ext_log' = <<Exchange("process", pdf_dir[pdf_filename],
                                           questions_to_process(questions_data, question_ids),
                                           answer)>>

\* ------------------------------------------------- concurrent requests

\* The question handlers are plain `def` functions: the server runs each
\* request on a thread of its pool, so handlers interleave. A handler takes
\* questions_lock inside load_questions and again inside save_questions, and
\* holds nothing in between.
Threads == 1..MaxThreads

IdleThread ==
  [pc |-> "idle", op |-> "", id |-> 0, soru |-> "", yordam |-> NoneValue,
   questions |-> <<>>, status |-> 0]

ThreadOps == {"add_question", "get_question", "update_question", "delete_question"}

\* Creates under way that have not drawn their identifier yet.
PendingCreates ==
  {t \in Threads : threads[t].op = "add_question"
                    /\ threads[t].pc \in {"load_acquire", "load_cs", "compute"}}

ThreadFrame ==
  UNCHANGED <<os_name, db_writes, pdf_dir, fs_access, ext_log, pre, req, resp, tasks>>

\* A request for one of the handlers `ops` arrives and a thread enters the
\* handler, about to call load_questions.
ThreadBegin(t, ops) ==
  /\ threads[t].pc = "idle"
  /\ \E op \in ops, id \in RequestIds, soru \in Texts \ {""} :
       /\ op = "add_question" =>
            (id = 0 /\ Cardinality(issued) + Cardinality(PendingCreates) < MaxIds)
       /\ soru = IF op = "update_question" THEN "t2" ELSE "t1"
       /\ threads' = [threads EXCEPT ![t] =
                        [IdleThread EXCEPT !.pc = "load_acquire", !.op = op,
                                           !.id = id, !.soru = soru]]
  /\ UNCHANGED <<questions_db, issued, questions_lock>>
  /\ ThreadFrame
  /\ UNCHANGED acked

t_begin(t) == ThreadBegin(t, ThreadOps)

\* Entering the with block without waiting for the lock to be free.
t_acquire_unguarded(t) ==
  /\ threads[t].pc \in {"load_acquire", "save_acquire"}
  /\ questions_lock' = t
  /\ threads' = [threads EXCEPT ![t].pc =
                   IF threads[t].pc = "load_acquire" THEN "load_cs" ELSE "save_cs"]
  /\ UNCHANGED <<questions_db, issued>>
  /\ ThreadFrame
  /\ UNCHANGED acked

\* with questions_file_lock(): the thread takes the lock when it is free.
t_acquire(t) ==
  /\ threads[t].pc \in {"load_acquire", "save_acquire"}
  /\ questions_lock = 0
  /\ questions_lock' = t
  /\ threads' = [threads EXCEPT ![t].pc =
                   IF threads[t].pc = "load_acquire" THEN "load_cs" ELSE "save_cs"]
  /\ UNCHANGED <<questions_db, issued>>
  /\ ThreadFrame
  /\ UNCHANGED acked

\* load_questions inside the lock: read and decode the document, leave the
\* with block.
t_load(t) ==
  /\ threads[t].pc = "load_cs"
  /\ threads' = IF load_raises(questions_db)
                THEN [threads EXCEPT ![t].pc = "respond", ![t].status = 500]
                ELSE [threads EXCEPT ![t].pc = "compute",
                                     ![t].questions = load_questions(questions_db)]
  /\ questions_lock' = 0
  /\ UNCHANGED <<questions_db, issued>>
  /\ ThreadFrame
  /\ UNCHANGED acked

\* The handler's work on its own copy of the list, between load and save.
t_compute(t) ==
  LET me == threads[t]
      idx == FirstIndex(me.questions, me.id)
      updated_questions == WithoutId(me.questions, me.id)
  IN /\ me.pc = "compute"
     /\ UNCHANGED <<questions_db, questions_lock, acked>>
     /\ ThreadFrame
     /\ CASE me.op = "add_question" ->
               \E id \in uuid4(issued) :
                 /\ issued' = issued \cup {id}
                 /\ threads' = [threads EXCEPT
                      ![t].pc = "save_acquire",
                      ![t].id = id,
                      ![t].questions =
                         Append(me.questions, QuestionDict(id, me.soru, me.yordam)),
                      ![t].status = 200]
          [] me.op = "get_question" ->
               /\ UNCHANGED issued
               /\ threads' = [threads EXCEPT
                    ![t].pc = "respond",
                    ![t].status = get_question_response(me.questions, me.id).status]
          [] me.op = "update_question" ->
               /\ UNCHANGED issued
               /\ threads' = IF idx = 0
                    THEN [threads EXCEPT ![t].pc = "respond", ![t].status = 404]
                    ELSE [threads EXCEPT
                           ![t].pc = "save_acquire",
                           ![t].questions =
                              replace_at(me.questions, idx,
                                         QuestionDict(me.id, me.soru, me.yordam)),
                           ![t].status = 200]
          [] me.op = "delete_question" ->
               /\ UNCHANGED issued
               /\ threads' = IF nothing_deleted(me.questions, updated_questions)
                    THEN [threads EXCEPT ![t].pc = "respond", ![t].status = 404]
                    ELSE [threads EXCEPT ![t].pc = "save_acquire",
                                         ![t].questions = updated_questions,
                                         ![t].status = 200]

\* save_questions inside the lock: open(QUESTIONS_DB, "w") empties the file.
t_truncate(t) ==
  /\ threads[t].pc = "save_cs"
  /\ questions_db' = [kind |-> "garbage", data |-> <<>>]
  /\ threads' = [threads EXCEPT ![t].pc = "save_dump"]
  /\ UNCHANGED <<issued, questions_lock>>
  /\ ThreadFrame
  /\ UNCHANGED acked

\* json.dump writes the list; the with blocks close the file and free the lock.
t_dump(t) ==
  /\ threads[t].pc = "save_dump"
  /\ questions_db' = save_questions(threads[t].questions)
  /\ questions_lock' = 0
  /\ threads' = [threads EXCEPT ![t].pc = "respond"]
  /\ UNCHANGED issued
  /\ ThreadFrame
  /\ UNCHANGED acked

\* A failed write whose with block is left without freeing the lock.
t_write_fails_holding(t) ==
  /\ threads[t].pc \in {"save_cs", "save_dump"}
  /\ threads' = [threads EXCEPT ![t].pc = "respond", ![t].status = 500]
  /\ UNCHANGED <<questions_db, issued, questions_lock>>
  /\ ThreadFrame
  /\ UNCHANGED acked

\* save_questions when open(QUESTIONS_DB, "w") or json.dump raises: the with
\* blocks are left, which frees the lock, and the except clause raises
\* HTTPException(500). The file stays as the failure found it: untouched
\* when open failed, emptied when the dump failed.
t_write_fails(t) ==
  /\ threads[t].pc \in {"save_cs", "save_dump"}
  /\ questions_lock' = 0
  /\ threads' = [threads EXCEPT ![t].pc = "respond", ![t].status = 500]
  /\ UNCHANGED <<questions_db, issued>>
  /\ ThreadFrame
  /\ UNCHANGED acked

\* The handler returns (or raises its HTTPException) and the thread is free:
\* the client has its answer. A successful create or delete is recorded.
t_respond(t) ==
  LET me == threads[t]
  IN /\ me.pc = "respond"
     /\ threads' = [threads EXCEPT ![t] = IdleThread]
     /\ acked' =
          IF me.status = 200 /\ me.op = "add_question"
          THEN [acked EXCEPT !.created = @ \cup {me.id}]
          ELSE IF me.status = 200 /\ me.op = "delete_question"
          THEN [acked EXCEPT !.deleted = @ \cup {me.id}]
          ELSE acked
     /\ UNCHANGED <<questions_db, issued, questions_lock>>
     /\ ThreadFrame

\* ------------------------------------------------------- async handlers

\* upload_pdf and process_questions are `async def`: the server runs them as
\* coroutines on its one event loop. A coroutine runs alone up to its next
\* await and other coroutines run only while it is suspended there; the
\* pool's threads run beside the loop all along.
Tasks == 1..MaxTasks

NoAnswer == ExternalAnswer("none", 0, FALSE, <<>>)

IdleTask ==
  [pc |-> "idle", op |-> "", name |-> <<>>, content |-> 0, ids |-> <<>>,
   questions |-> <<>>, validated |-> FALSE, calls |-> 0, answer |-> NoAnswer,
   status |-> 0, detail |-> 0]

\* The lock's holder when it is the event loop running coroutine k.
TaskHolder(k) == MaxThreads + k

\* load_questions is an ordinary call inside the coroutine: while it waits
\* for the lock or reads, the event loop runs nothing else.
LoopFree == \A k \in Tasks : tasks[k].pc \notin {"load_acquire", "load_cs"}

TaskFrame ==
  UNCHANGED <<os_name, issued, db_writes, fs_access, ext_log, pre, req, resp,
              threads, acked>>

\* File names and identifier lists sent while requests overlap.
AsyncNames == {Stem \o PdfExt, Stem \o <<".", "t", "x", "t">>}
AsyncIdLists == {l \in IdLists : Len(l) <= 1}
\* Outcomes of the request to /process while requests overlap.
AsyncAnswers == {a \in ExternalAnswers : Len(a.results) <= 1}
\* Question handlers the pool runs beside the event loop.
AsyncOps == {"add_question", "get_question"}

\* upload_pdf up to `await file.read()`: the name is validated and the
\* existence of the target tested.
upload_check(k) ==
  /\ tasks[k].pc = "idle"
  /\ LoopFree
  /\ \E filename \in AsyncNames, file_bytes \in FileContents :
       LET valid == validate_pdf_filename(os_name, filename)
           me == [IdleTask EXCEPT !.op = "upload_pdf"]
       IN tasks' = [tasks EXCEPT ![k] =
            IF valid.status # 200
            THEN [me EXCEPT !.pc = "respond", !.status = 400]
            ELSE IF exists(pdf_dir, valid.name)
            THEN [me EXCEPT !.pc = "respond", !.status = 409]
            ELSE [me EXCEPT !.pc = "read_wait", !.name = valid.name,
                            !.content = file_bytes]]
  /\ UNCHANGED <<questions_db, questions_lock, pdf_dir>>
  /\ TaskFrame

\* upload_pdf from the return of file.read() to `await
\* client.preprocess_pdf_async(...)`: the bytes are written and the request
\* to /preprocess-pdf is sent.
upload_write(k) ==
  /\ tasks[k].pc = "read_wait"
  /\ LoopFree
  /\ pdf_dir' = write_file(pdf_dir, tasks[k].name, tasks[k].content)
  /\ tasks' = [tasks EXCEPT ![k].pc = "preprocess_wait", ![k].calls = 1]
  /\ UNCHANGED <<questions_db, questions_lock>>
  /\ TaskFrame

\* upload_pdf from the answer of the external service to its return.
upload_preprocessed(k) ==
  /\ tasks[k].pc = "preprocess_wait"
  /\ LoopFree
  /\ \E answer \in PreprocessAnswers :
       tasks' = [tasks EXCEPT
                   ![k].pc = "respond",
                   ![k].answer = answer,
                   ![k].status = IF preprocess_pdf_async(answer) THEN 200 ELSE 500]
  /\ UNCHANGED <<questions_db, questions_lock, pdf_dir>>
  /\ TaskFrame

\* process_questions up to its call of load_questions: the name is validated
\* and the existence of the PDF tested.
process_check(k) ==
  /\ tasks[k].pc = "idle"
  /\ LoopFree
  /\ \E pdf_name \in AsyncNames, question_ids \in AsyncIdLists :
       LET valid == validate_pdf_filename(os_name, pdf_name)
           me == [IdleTask EXCEPT !.op = "process_questions"]
       IN tasks' = [tasks EXCEPT ![k] =
            IF valid.status # 200
            THEN [me EXCEPT !.pc = "respond", !.status = 400]
            ELSE IF ~exists(pdf_dir, valid.name)
            THEN [me EXCEPT !.pc = "respond", !.status = 404]
            ELSE [me EXCEPT !.pc = "load_acquire", !.name = valid.name,
                            !.ids = question_ids]]
  /\ UNCHANGED <<questions_db, questions_lock, pdf_dir>>
  /\ TaskFrame

\* load_questions, called by process_questions: the event loop's thread
\* takes the lock when it is free.
process_acquire(k) ==
  /\ tasks[k].pc = "load_acquire"
  /\ questions_lock = 0
  /\ questions_lock' = TaskHolder(k)
  /\ tasks' = [tasks EXCEPT ![k].pc = "load_cs"]
  /\ UNCHANGED <<questions_db, pdf_dir>>
  /\ TaskFrame

\* A load that returns without leaving the with block.
process_load_holding(k) ==
  LET me == tasks[k]
      questions_data == load_questions(questions_db)
  IN /\ me.pc = "load_cs"
     /\ UNCHANGED <<questions_lock, questions_db, pdf_dir>>
     /\ TaskFrame
     /\ tasks' = [tasks EXCEPT ![k] =
          IF load_raises(questions_db)
          THEN [me EXCEPT !.pc = "respond", !.status = 500, !.ids = <<>>]
          ELSE IF first_unknown(questions_data, me.ids) # 0
          THEN [me EXCEPT !.pc = "respond", !.status = 404, !.ids = <<>>]
          ELSE IF ~exists(pdf_dir, me.name)
          THEN [me EXCEPT !.pc = "respond", !.status = 404, !.ids = <<>>,
                          !.validated = TRUE]
          ELSE [me EXCEPT !.pc = "process_wait", !.validated = TRUE,
                          !.questions = questions_data, !.calls = 1]]

\* process_questions from the read inside load_questions to `await
\* client.post(...)` in query_process_endpoint: the document is read and the
\* lock released, the identifiers are looked up, the PDF is tested again and
\* opened, and the request to /process is sent.
process_load(k) ==
  LET me == tasks[k]
      questions_data == load_questions(questions_db)
  IN /\ me.pc = "load_cs"
     /\ questions_lock' = 0
     /\ UNCHANGED <<questions_db, pdf_dir>>
     /\ TaskFrame
     /\ tasks' = [tasks EXCEPT ![k] =
          IF load_raises(questions_db)
          THEN [me EXCEPT !.pc = "respond", !.status = 500, !.ids = <<>>]
          ELSE IF first_unknown(questions_data, me.ids) # 0
          THEN [me EXCEPT !.pc = "respond", !.status = 404, !.ids = <<>>]
          ELSE IF ~exists(pdf_dir, me.name)
          THEN [me EXCEPT !.pc = "respond", !.status = 404, !.ids = <<>>,
                          !.validated = TRUE]
          ELSE [me EXCEPT !.pc = "process_wait", !.validated = TRUE,
                          !.questions = questions_data, !.calls = 1]]

\* The upstream status an HTTPStatusError puts in the 502's detail.
process_detail(answer) ==
  IF query_process_endpoint(answer).raises = "HTTPStatusError" THEN answer.status ELSE 0

\* A handler that sends the request again when the service was unreachable.
process_answered_retrying(k) ==
  /\ tasks[k].pc = "process_wait"
  /\ LoopFree
  /\ \E answer \in AsyncAnswers :
       tasks' = [tasks EXCEPT ![k] =
          IF answer.kind = "network_error" /\ tasks[k].calls < 2
          THEN [@ EXCEPT !.calls = @ + 1]
          ELSE [@ EXCEPT !.pc = "respond", !.answer = answer,
                         !.ids = <<>>, !.questions = <<>>,
                         !.status = process_response(answer).status,
                         !.detail = process_detail(answer)]]
  /\ UNCHANGED <<questions_db, questions_lock, pdf_dir>>
  /\ TaskFrame

\* process_questions from the outcome of the awaited request to its return.
process_answered(k) ==
  /\ tasks[k].pc = "process_wait"
  /\ LoopFree
  /\ \E answer \in AsyncAnswers :
       tasks' = [tasks EXCEPT
                   ![k].pc = "respond",
                   ![k].answer = answer,
                   ![k].ids = <<>>,
                   ![k].questions = <<>>,
                   ![k].status = process_response(answer).status,
                   ![k].detail = process_detail(answer)]
  /\ UNCHANGED <<questions_db, questions_lock, pdf_dir>>
  /\ TaskFrame

\* The coroutine returns (or raises its HTTPException): the response is sent.
task_respond(k) ==
  /\ tasks[k].pc = "respond"
  /\ LoopFree
  /\ tasks' = [tasks EXCEPT ![k] = IdleTask]
  /\ UNCHANGED <<questions_db, questions_lock, pdf_dir>>
  /\ TaskFrame

\* delete_pdf is a plain `def`: a thread of the pool runs it beside the loop.
t_delete_pdf(t) ==
  /\ threads[t].pc = "idle"
  /\ \E filename \in AsyncNames :
       LET found == ~HasTraversal(filename) /\ exists(pdf_dir, filename)
       IN /\ threads' = [threads EXCEPT ![t] =
               [IdleThread EXCEPT !.pc = "respond", !.op = "delete_pdf",
                  !.status = IF HasTraversal(filename) THEN 400
                             ELSE IF found THEN 200 ELSE 404]]
          /\ pdf_dir' = IF found THEN remove(pdf_dir, filename) ELSE pdf_dir
  /\ UNCHANGED <<os_name, questions_db, issued, questions_lock, db_writes,
                 fs_access, ext_log, pre, req, resp, tasks, acked>>

\* -------------------------------------------------------- specification

\* ensure_data_directory: an empty PDF directory and the document "[]".
Init ==
  /\ os_name \in {"posix", "nt"}
  /\ questions_db = ListDocument(<<>>)
  /\ issued = {}
  /\ db_writes = 0
  /\ pdf_dir = <<>>
  /\ fs_access = 0
  /\ ext_log = <<>>
  /\ pre = [questions_db |-> ListDocument(<<>>), pdf_dir |-> <<>>]
  /\ req = Request("")
  /\ resp = Response(0)
  /\ questions_lock = 0
  /\ threads = [t \in Threads |-> IdleThread]
  /\ tasks = [k \in Tasks |-> IdleTask]
  /\ acked = [created |-> {}, deleted |-> {}]

\* No request is being answered: the server waits for the next one.
Waiting == req.op = ""

\* The response has been sent: the record of the request, of its response
\* and of what it did is dropped, the stores stay as the request left them.
next_request ==
  /\ ~Waiting
  /\ req' = Request("")
  /\ resp' = Response(0)
  /\ pre' = Snapshot
  /\ db_writes' = 0
  /\ fs_access' = 0
  /\ ext_log' = <<>>
  /\ UNCHANGED <<os_name, questions_db, issued, pdf_dir, questions_lock, threads,
                 tasks, acked>>

\* The question endpoints, requests handled one at a time, each handler run
\* to completion.
Next ==
  \/ Waiting /\ list_questions
  \/ Waiting /\ add_question
  \/ Waiting /\ get_question
  \/ Waiting /\ update_question
  \/ Waiting /\ delete_question
  \/ next_request

Spec == Init /\ [][Next]_vars

\* The PDF endpoints, one request at a time.
NextPdf ==
  \/ Waiting /\ list_pdfs
  \/ Waiting /\ upload_pdf
  \/ Waiting /\ get_pdf
  \/ Waiting /\ delete_pdf
  \/ next_request

SpecPdf == Init /\ [][NextPdf]_vars

\* POST /process, one request at a time, on stores filled by a few creates
\* and uploads.
seed_question == AddQuestion({"t1"}, {"p1"})
seed_pdf == UploadPdf({Stem \o PdfExt}, {1}, {Completed})

NextProcess ==
  \/ Waiting /\ seed_question
  \/ Waiting /\ seed_pdf
  \/ Waiting /\ process_questions
  \/ next_request

SpecProcess == Init /\ [][NextProcess]_vars

\* Something outside the program removes the questions document or replaces
\* its content, between two requests.
damage_document ==
  /\ questions_db.kind = "list"
  /\ \E kind \in DamagedKinds : questions_db' = [kind |-> kind, data |-> <<>>]
  /\ UNCHANGED <<os_name, issued, db_writes, pdf_dir, fs_access, ext_log, pre, req, resp>>
  /\ PoolIdle

\* The question endpoints, one request at a time, over a document that may
\* get damaged.
NextStore ==
  \/ Waiting /\ list_questions
  \/ Waiting /\ add_question
  \/ Waiting /\ get_question
  \/ Waiting /\ update_question
  \/ Waiting /\ delete_question
  \/ Waiting /\ damage_document
  \/ next_request

SpecStore == Init /\ [][NextStore]_vars

\* Every endpoint, one request at a time.
NextAll ==
  \/ Waiting /\ list_questions
  \/ Waiting /\ add_question
  \/ Waiting /\ get_question
  \/ Waiting /\ update_question
  \/ Waiting /\ delete_question
  \/ Waiting /\ list_pdfs
  \/ Waiting /\ upload_pdf
  \/ Waiting /\ get_pdf
  \/ Waiting /\ delete_pdf
  \/ Waiting /\ process_questions
  \/ next_request

SpecAll == Init /\ [][NextAll]_vars

\* The question endpoints under concurrent requests.
NextThreads ==
  \E t \in Threads :
    \/ t_begin(t)
    \/ t_acquire(t)
    \/ t_load(t)
    \/ t_compute(t)
    \/ t_truncate(t)
    \/ t_dump(t)
    \/ t_respond(t)

SpecThreads == Init /\ [][NextThreads]_vars

\* The question handlers under concurrent requests, with reads and writes
\* that may fail: the document may get damaged and a write may raise.
FairOps == {"add_question", "get_question"}

NextFair ==
  \/ \E t \in Threads :
       \/ ThreadBegin(t, FairOps)
       \/ t_acquire(t)
       \/ t_load(t)
       \/ t_compute(t)
       \/ t_truncate(t)
       \/ t_dump(t)
       \/ t_write_fails(t)
       \/ t_respond(t)
  \/ damage_document

\* A thread that can take its next step takes it in the end; a thread
\* waiting for the lock gets it in the end if the lock keeps being freed.
Fairness ==
  \A t \in Threads :
    /\ SF_vars(t_acquire(t))
    /\ WF_vars(t_load(t))
    /\ WF_vars(t_compute(t))
    /\ WF_vars(t_truncate(t) \/ t_dump(t) \/ t_write_fails(t))
    /\ WF_vars(t_respond(t))

SpecFair == Init /\ [][NextFair]_vars /\ Fairness

\* The async handlers on the event loop beside a thread of the pool that
\* runs question handlers and delete_pdf.
AsyncThreads == {1}

NextAsync ==
  \/ \E k \in Tasks :
       \/ upload_check(k)
       \/ upload_write(k)
       \/ upload_preprocessed(k)
       \/ process_check(k)
       \/ process_acquire(k)
       \/ process_load(k)
       \/ process_answered(k)
       \/ task_respond(k)
  \/ \E t \in AsyncThreads :
       \/ ThreadBegin(t, AsyncOps)
       \/ t_acquire(t)
       \/ t_load(t)
       \/ t_compute(t)
       \/ t_truncate(t)
       \/ t_dump(t)
       \/ t_respond(t)
       \/ t_delete_pdf(t)

\* No name sent here holds a separator, so one platform is enough.
InitAsync == Init /\ os_name = "posix"

SpecAsync == InitAsync /\ [][NextAsync]_vars

\* Uploads alone, overlapping on the event loop; nothing deletes a file.
NextUploads ==
  \E k \in Tasks :
    \/ upload_check(k)
    \/ upload_write(k)
    \/ upload_preprocessed(k)
    \/ task_respond(k)

SpecUploads == Init /\ [][NextUploads]_vars

\* ------------------------------------------------------------ properties

StoredQuestions == load_questions(questions_db)
QuestionsBefore == load_questions(pre.questions_db)

\* C1: a create with a non-empty text succeeds, the identifier it returns is
\* not the identifier of any question stored before the request, and a get of
\* that identifier right after it answers 200 with exactly the submitted text
\* and procedure.
C1_CreateFreshAndRetrievable ==
  (req.op = "add_question" /\ ValidText(req.soru)) =>
    /\ resp.status = 200
    /\ resp.id \notin QuestionIds(QuestionsBefore)
    /\ LET got == get_question_response(StoredQuestions, resp.id)
       IN /\ got.status = 200
          /\ got.id = resp.id
          /\ got.soru = req.soru
          /\ got.yordam = req.yordam

\* C1 witness: a create with a procedure, answered while another question
\* was already stored.
C1_Witness ==
  /\ req.op = "add_question"
  /\ resp.status = 200
  /\ req.yordam # NoneValue
  /\ Len(QuestionsBefore) >= 1

\* C2: an update of a stored question succeeds, answers with the identifier it
\* was addressed to (one that create handed out), leaves the set of stored
\* identifiers as it was, and a get of that identifier right after it answers
\* with the updated text and procedure under the same identifier.
C2_UpdateRoundTrip ==
  (/\ req.op = "update_question"
   /\ ValidText(req.soru)
   /\ req.id \in QuestionIds(QuestionsBefore)) =>
    /\ resp.status = 200
    /\ resp.id = req.id
    /\ req.id \in issued
    /\ QuestionIds(StoredQuestions) = QuestionIds(QuestionsBefore)
    /\ Len(StoredQuestions) = Len(QuestionsBefore)
    /\ LET got == get_question_response(StoredQuestions, req.id)
       IN /\ got.status = 200
          /\ got.id = req.id
          /\ got.soru = req.soru
          /\ got.yordam = req.yordam

\* C2 witness: an update that changed both fields of the second of two
\* stored questions.
C2_Witness ==
  /\ req.op = "update_question"
  /\ resp.status = 200
  /\ Len(QuestionsBefore) = 2
  /\ QuestionsBefore[2].id = req.id
  /\ QuestionsBefore[2].soru # req.soru
  /\ QuestionsBefore[2].yordam # req.yordam

\* C3: an update (with a valid body) or a delete addressed to an identifier
\* that is not stored answers 404, leaves the stored sequence exactly as it
\* was and does not rewrite the document.
C3_UnknownIdNotFound ==
  (/\ req.op \in {"update_question", "delete_question"}
   /\ req.op = "update_question" => ValidText(req.soru)
   /\ req.id \notin QuestionIds(QuestionsBefore)) =>
    /\ resp.status = 404
    /\ questions_db = pre.questions_db
    /\ db_writes = 0

\* C3 witness: a delete of an identifier that was never stored, and an update
\* of one that was deleted before, each on a non-empty store.
C3_Witness ==
  /\ req.op \in {"update_question", "delete_question"}
  /\ resp.status = 404
  /\ Len(QuestionsBefore) >= 1
  /\ (req.op = "update_question" => req.id \in issued)

\* C7: an upload under a file name that is already stored answers 409 and
\* leaves the directory, and so the bytes stored under that name, as they were.
C7_DuplicateUploadConflict ==
  (req.op = "upload_pdf" /\ req.name \in DOMAIN pre.pdf_dir) =>
    /\ resp.status = 409
    /\ pdf_dir = pre.pdf_dir
    /\ pdf_dir[req.name] = pre.pdf_dir[req.name]
    /\ ext_log = <<>>

\* C7 witness: a second upload of a stored name with different bytes, refused.
C7_Witness ==
  /\ req.op = "upload_pdf"
  /\ resp.status = 409
  /\ req.name \in DOMAIN pre.pdf_dir
  /\ req.content # pre.pdf_dir[req.name]

\* C8: GET /pdf/{name} with a name holding "..", "/" or "\" answers 400
\* without a single file-system call.
C8_TraversalRejectedFirst ==
  (/\ req.op = "get_pdf"
   /\ \/ \E i \in DOMAIN req.name : req.name[i] \in {"/", "\\"}
      \/ \E i \in 1..(Len(req.name) - 1) : req.name[i] = "." /\ req.name[i + 1] = ".") =>
    /\ resp.status = 400
    /\ fs_access = 0

\* C8 witness: a name with a backslash that names a stored file is refused.
C8_Witness ==
  /\ req.op = "get_pdf"
  /\ resp.status = 400
  /\ \E i \in DOMAIN req.name : req.name[i] = "\\"
  /\ req.name \in DOMAIN pdf_dir

\* C9 (as claimed): an upload whose file name is empty, does not end in .pdf
\* (case-insensitively), or holds "..", "/" or "\" answers 400 before any
\* file-system call and stores nothing.
C9_BadNameRejected ==
  (/\ req.op = "upload_pdf"
   /\ \/ req.name = <<>>
      \/ ~EndsWith(LowerName(req.name), PdfExt)
      \/ \E i \in DOMAIN req.name : req.name[i] \in {"/", "\\"}
      \/ \E i \in 1..(Len(req.name) - 1) : req.name[i] = "." /\ req.name[i + 1] = ".") =>
    /\ resp.status = 400
    /\ fs_access = 0
    /\ pdf_dir = pre.pdf_dir

\* C10 (as claimed): every stored file name ends in .pdf and holds no "/",
\* no "\" and no "..".
C10_StoredNamesClean ==
  \A n \in DOMAIN pdf_dir :
    /\ EndsWith(LowerName(n), PdfExt)
    /\ \A i \in DOMAIN n : n[i] \notin {"/", "\\"}
    /\ \A i \in 1..(Len(n) - 1) : ~(n[i] = "." /\ n[i + 1] = ".")

\* C5 (as claimed): a /process request whose named PDF is not stored, or with
\* at least one unknown identifier, answers 404 and makes no external call.
C5_MissingIsNotFound ==
  (/\ req.op = "process_questions"
   /\ \/ req.name \notin DOMAIN pre.pdf_dir
      \/ \E i \in DOMAIN req.ids : req.ids[i] \notin QuestionIds(QuestionsBefore)) =>
    /\ resp.status = 404
    /\ ext_log = <<>>

\* C5 (amended): /process makes no external call unless pdf_name passes the
\* file-name validation, the file stored under the validated name exists and
\* every requested identifier is stored. A name that fails validation answers
\* 400; a validated name without a file, or any unknown identifier, answers
\* 404; in both cases no external call is made.
C5_NoCallUnlessValid ==
  req.op = "process_questions" =>
    LET valid == validate_pdf_filename(os_name, req.name)
        resolved == \A i \in DOMAIN req.ids : req.ids[i] \in QuestionIds(QuestionsBefore)
    IN /\ valid.status # 200 => (resp.status = 400 /\ ext_log = <<>>)
       /\ (valid.status = 200 /\ (valid.name \notin DOMAIN pre.pdf_dir \/ ~resolved))
            => (resp.status = 404 /\ ext_log = <<>>)
       /\ ext_log # <<>> =>
            (valid.status = 200 /\ valid.name \in DOMAIN pre.pdf_dir /\ resolved)

\* C5 witness: a stored PDF, one stored and one unknown identifier: 404, no call.
C5_Witness ==
  /\ req.op = "process_questions"
  /\ resp.status = 404
  /\ req.name \in DOMAIN pdf_dir
  /\ Len(req.ids) = 2
  /\ req.ids[1] \in QuestionIds(StoredQuestions)
  /\ req.ids[2] \notin QuestionIds(StoredQuestions)
  /\ ext_log = <<>>

\* C6 (as claimed): a successful /process answer holds as many results as
\* identifiers were requested, count is that length, and the results are the
\* external service's, in its order.
C6_OneResultPerId ==
  (req.op = "process_questions" /\ resp.status = 200) =>
    /\ Len(resp.items) = Len(req.ids)
    /\ resp.count = Len(resp.items)
    /\ resp.items = ext_log[1].answer.results

\* C6 (amended): a /process request that passed validation sent exactly one
\* outbound request carrying one question per requested identifier, in request
\* order; when the service answers 200 with a well-formed body of valid
\* items, the response is 200 and its results are exactly the service's
\* result sequence, same elements in the same order, with count its length
\* (whatever the number of requested identifiers).
C6_ResultsAreTheServices ==
  (req.op = "process_questions" /\ ext_log # <<>>) =>
    LET sent == ext_log[1]
        good == /\ sent.answer.kind = "http"
                /\ sent.answer.status = 200
                /\ sent.answer.wellformed
                /\ \A i \in DOMAIN sent.answer.results :
                     sent.answer.results[i].status \in ResultStatuses
    IN /\ Len(ext_log) = 1
       /\ Len(sent.questions) = Len(req.ids)
       /\ \A i \in DOMAIN req.ids :
            \E j \in DOMAIN StoredQuestions :
              /\ StoredQuestions[j].id = req.ids[i]
              /\ sent.questions[i].soru = StoredQuestions[j].soru
              /\ sent.questions[i].yordam = StoredQuestions[j].yordam
       /\ good <=> resp.status = 200
       /\ good => /\ resp.items = sent.answer.results
                  /\ resp.count = Len(sent.answer.results)

\* C6 witness: one identifier requested, two different results returned.
C6_Witness ==
  /\ req.op = "process_questions"
  /\ resp.status = 200
  /\ Len(req.ids) = 1
  /\ Len(resp.items) = 2
  /\ resp.items[1] # resp.items[2]

\* C4: whatever the interleaving of concurrent create, update and delete
\* requests, no two stored questions share an identifier.
C4_UniqueIds ==
  \A i, j \in DOMAIN StoredQuestions :
    StoredQuestions[i].id = StoredQuestions[j].id => i = j

\* C4 witness: two questions are stored while an update and a delete of the
\* same stored identifier, both past their load, wait to save.
C4_Witness ==
  /\ Len(StoredQuestions) = 2
  /\ \E t, u \in Threads :
       /\ threads[t].op = "update_question"
       /\ threads[u].op = "delete_question"
       /\ threads[t].pc = "save_acquire"
       /\ threads[u].pc = "save_acquire"
       /\ threads[t].id = threads[u].id

\* Threads inside the with block of load_questions or of save_questions.
InCriticalSection ==
  {t \in Threads : threads[t].pc \in {"load_cs", "save_cs", "save_dump"}}

\* C11: reads and writes of the questions document are serialized by the one
\* lock: at most one request is inside the read or the write critical section
\* and it is the lock's holder, the lock is free when none is inside, and the
\* half-written document of a write under way exists only while its writer
\* is inside, so a reader inside its critical section has the whole document
\* before it.
C11_Serialized ==
  /\ Cardinality(InCriticalSection) <= 1
  /\ \A t \in InCriticalSection : questions_lock = t
  /\ InCriticalSection = {} => questions_lock = 0
  /\ questions_db.kind # "list" =>
       \E t \in Threads : threads[t].pc = "save_dump"
  /\ \A t \in Threads : threads[t].pc = "load_cs" => questions_db.kind = "list"

\* C11 witness: a writer is half way through its write, the file emptied,
\* while another request waits for the lock to read.
C11_Witness ==
  \E t, u \in Threads :
    /\ threads[t].pc = "save_dump"
    /\ questions_db.kind = "garbage"
    /\ threads[u].pc = "load_acquire"

\* Coroutines suspended at an await.
Suspended ==
  {k \in Tasks : tasks[k].pc \in {"read_wait", "preprocess_wait", "process_wait"}}

\* C12: a /process request, or an upload, suspended on the external service
\* (or on the read of the upload) does not hold the questions lock: the loop
\* holds it only between the acquire and the read inside load_questions, so
\* whenever no request is inside a critical section the lock is free for a
\* question handler to take.
C12_NoLockWhileSuspended ==
  /\ \A k \in Suspended : questions_lock # TaskHolder(k)
  /\ \A k \in Tasks : questions_lock = TaskHolder(k) => tasks[k].pc = "load_cs"
  /\ (LoopFree /\ InCriticalSection = {}) => questions_lock = 0

\* C12 witness: a /process request that loaded an empty store is still
\* waiting for the external service, and creates have stored two questions
\* in the meantime, the second of them just answered.
C12_Witness ==
  \E k \in Tasks, t \in Threads :
    /\ tasks[k].pc = "process_wait"
    /\ tasks[k].questions = <<>>
    /\ Len(StoredQuestions) = 2
    /\ threads[t].op = "add_question"
    /\ threads[t].pc = "respond"
    /\ threads[t].status = 200

\* C13: the existence test of an upload is not repeated at the write: an
\* upload that passed it and resumes after file.read() writes its bytes under
\* its name whether or not a file of that name has appeared since, replacing
\* that file, and goes on to the external call, never to a 409.
C13_CheckThenWrite ==
  [][\A k \in Tasks :
       (tasks[k].pc = "read_wait" /\ tasks'[k].pc # "read_wait") =>
         /\ tasks'[k].pc = "preprocess_wait"
         /\ tasks'[k].status # 409
         /\ tasks[k].name \in DOMAIN pdf_dir'
         /\ pdf_dir'[tasks[k].name] = tasks[k].content]_vars

\* C13 witness: two uploads of one name with different bytes, where nothing
\* ever deletes a file, are both answered 200: both passed the existence
\* test before either wrote, and the directory holds the bytes of one.
C13_Witness ==
  \E k, j \in Tasks :
    /\ k # j
    /\ tasks[k].op = "upload_pdf" /\ tasks[j].op = "upload_pdf"
    /\ tasks[k].pc = "respond" /\ tasks[j].pc = "respond"
    /\ tasks[k].status = 200 /\ tasks[j].status = 200
    /\ tasks[k].name = tasks[j].name
    /\ tasks[k].content # tasks[j].content
    /\ pdf_dir[tasks[k].name] = tasks[k].content

\* /process requests that passed validation and have their response.
ProcessedTasks ==
  {k \in Tasks : /\ tasks[k].op = "process_questions"
                 /\ tasks[k].pc = "respond"
                 /\ tasks[k].validated}

\* C15: a validated /process request whose PDF is gone when the call is
\* about to be made answers 404 without calling; otherwise an unreachable
\* service gives 503, an answer with a status outside 2xx gives 502 whose
\* detail carries that status, a 2xx answer whose body cannot be decoded or
\* holds an item of an unknown status gives 500, and 200 is returned only
\* for a 200 answer with a well-formed body.
C15_OutcomeMapping ==
  \A k \in ProcessedTasks :
    LET me == tasks[k]
        a == me.answer
    IN /\ me.calls = 0 => me.status = 404
       /\ me.calls # 0 =>
            /\ a.kind = "network_error" => me.status = 503
            /\ (a.kind = "http" /\ a.status \notin 200..299) =>
                 (me.status = 502 /\ me.detail = a.status)
            /\ (a.kind = "http" /\ a.status \in 200..299 /\ ~a.wellformed) =>
                 me.status = 500
            /\ (\E i \in DOMAIN a.results : a.results[i].status \notin ResultStatuses) =>
                 me.status = 500
            /\ me.status = 200 =>
                 (a.kind = "http" /\ a.status = 200 /\ a.wellformed)
       /\ me.status \in {200, 404, 500, 502, 503}

\* C15 witness: the PDF was deleted between the handler's existence test and
\* the call, and the request was answered 404 without calling.
C15_Witness ==
  \E k \in ProcessedTasks : tasks[k].calls = 0 /\ tasks[k].status = 404

\* C16: a /process request sends at most one outbound request whatever the
\* outcome, and once its response is produced it sends none.
C16_NoRetry ==
  [][\A k \in Tasks :
       /\ tasks'[k].op = "process_questions" => tasks'[k].calls <= 1
       /\ (tasks[k].op = "process_questions" /\ tasks[k].pc = "respond") =>
            tasks'[k].calls <= tasks[k].calls]_vars

\* C16 witness: the service was unreachable, the request was answered 503
\* and exactly one outbound request had been sent.
C16_Witness ==
  \E k \in Tasks :
    /\ tasks[k].op = "process_questions"
    /\ tasks[k].pc = "respond"
    /\ tasks[k].status = 503
    /\ tasks[k].calls = 1

\* C14: a request answered 400, 404 or 409, on whatever endpoint, had no
\* side effect: the questions document and the PDF directory are as they
\* were before it, the document was not rewritten and no outbound request
\* was sent.
C14_RejectedHasNoEffect ==
  resp.status \in {400, 404, 409} =>
    /\ questions_db = pre.questions_db
    /\ pdf_dir = pre.pdf_dir
    /\ db_writes = 0
    /\ ext_log = <<>>

\* C14 witness: with a question and a PDF stored, a /process request naming
\* that PDF and an unknown question identifier was answered 404.
C14_Witness ==
  /\ req.op = "process_questions"
  /\ resp.status = 404
  /\ validate_pdf_filename(os_name, req.name).status = 200
  /\ exists(pdf_dir, validate_pdf_filename(os_name, req.name).name)
  /\ StoredQuestions # <<>>

\* C17: when the questions document is missing, cannot be decoded as JSON or
\* is not a list, a read treats the store as empty: list-all answers 200 with
\* no question and count 0, a get answers 404, and neither answers 500.
C17_DamagedReadsEmpty ==
  pre.questions_db.kind \in DamagedKinds =>
    /\ req.op = "list_questions" =>
         (resp.status = 200 /\ resp.items = <<>> /\ resp.count = 0)
    /\ req.op = "get_question" => resp.status = 404

\* C18: DELETE /pdf/{filename} on a stored file answers 200 and removes that
\* file and no other, so that the name is gone from the directory and from
\* the listing; on a name that is not stored (and that the handler takes as
\* a file name) it answers 404 and changes nothing.
C18_DeleteRemovesStored ==
  req.op = "delete_pdf" =>
    IF req.name \in DOMAIN pre.pdf_dir
    THEN /\ resp.status = 200
         /\ DOMAIN pdf_dir = DOMAIN pre.pdf_dir \ {req.name}
         /\ \A n \in DOMAIN pdf_dir : pdf_dir[n] = pre.pdf_dir[n]
         /\ req.name \notin get_pdf_files(pdf_dir)
    ELSE ~HasTraversal(req.name) => (resp.status = 404 /\ pdf_dir = pre.pdf_dir)

DeletesUnderWay(id) ==
  {t \in Threads : /\ threads[t].op = "delete_question"
                   /\ threads[t].id = id
                   /\ threads[t].status = 200}

\* C20: whatever the interleaving of concurrent creates, updates and
\* deletes, whenever no write is under way a question whose create has
\* returned success is stored unless a delete of it has succeeded or is
\* removing it, and an identifier whose delete has returned success is not
\* stored.
C20_NoLostMutation ==
  questions_lock = 0 =>
    /\ \A id \in acked.created \ acked.deleted :
         DeletesUnderWay(id) = {} => id \in QuestionIds(StoredQuestions)
    /\ \A id \in acked.deleted : id \notin QuestionIds(StoredQuestions)

\* C21: an upload under a valid name that is not stored yet writes the file
\* and forwards its bytes to /preprocess-pdf, once; when the forward fails
\* (service unreachable, error status, reply that does not parse) the answer
\* is 500 and the file stays: it is listed by GET /pdfs and the same upload
\* repeated would find it there and answer 409.
C21_FailedForwardKeepsFile ==
  LET valid == validate_pdf_filename(os_name, req.name)
  IN (/\ req.op = "upload_pdf"
      /\ valid.status = 200
      /\ valid.name \notin DOMAIN pre.pdf_dir) =>
       /\ Len(ext_log) = 1
       /\ ext_log[1].endpoint = "preprocess-pdf"
       /\ ext_log[1].file = req.content
       /\ valid.name \in DOMAIN pdf_dir
       /\ pdf_dir[valid.name] = req.content
       /\ LET answer == ext_log[1].answer
              failed == \/ answer.kind = "network_error"
                        \/ answer.status \notin 200..299
                        \/ ~answer.wellformed
          IN /\ failed => resp.status = 500
             /\ ~failed => resp.status = 200
       /\ valid.name \in get_pdf_files(pdf_dir)
       /\ exists(pdf_dir, validate_pdf_filename(os_name, req.name).name)

\* C21 witness: the service answered the forward with an error status, the
\* upload was answered 500 and the file is in the directory.
C21_Witness ==
  /\ req.op = "upload_pdf"
  /\ resp.status = 500
  /\ Len(ext_log) = 1
  /\ ext_log[1].answer.kind = "http"
  /\ ext_log[1].answer.status = 500
  /\ req.name \in DOMAIN pdf_dir
  /\ req.name \notin DOMAIN pre.pdf_dir

\* C22: the name an upload answers 200 with can be used as it is: a GET of
\* that name answers 200 with the uploaded bytes and a DELETE of that name
\* answers 200, neither 400 nor 404.
C22_ReturnedNameUsable ==
  (req.op = "upload_pdf" /\ resp.status = 200) =>
    /\ get_pdf_response(pdf_dir, resp.name).status = 200
    /\ get_pdf_response(pdf_dir, resp.name).content = req.content
    /\ delete_pdf_status(pdf_dir, resp.name) = 200

\* C24: a create issued while the questions document is missing, cannot be
\* decoded or is not a list answers 200 and leaves the document a list that
\* holds the created question and nothing else.
C24_CreateOverDamaged ==
  (/\ req.op = "add_question"
   /\ ValidText(req.soru)
   /\ pre.questions_db.kind \in DamagedKinds) =>
    /\ resp.status = 200
    /\ questions_db = ListDocument(<<QuestionDict(resp.id, req.soru, req.yordam)>>)

====
